---- MODULE Spec2Model ----
(***************************************************************************)
(* State-machine model of the three user seeders of supabase-auth-seeder:  *)
(*   AuthUserSeeder     (seeder.ts,              the concurrent policy)    *)
(*   BatchSeeder        (batch-seeder.ts,        the chunked policy)       *)
(*   ConservativeSeeder (conservative-seeder.ts, the conservative policy)  *)
(*                                                                         *)
(* Scheduling follows the JavaScript event loop: code between two awaits   *)
(* runs to completion, so the handlers of in-flight work (settlement of a  *)
(* remote call, expiry of a timer, continuation of a batch) run only while *)
(* seedUsers is suspended at an await.  Where a synchronous stretch is     *)
(* split into several steps (generate, report, catch), no other action is  *)
(* enabled until the stretch ends (Busy).                                  *)
(*                                                                         *)
(* The records of one dispatched unit (a batch, or a sub-chunk) that have  *)
(* the same outcome are interchangeable for the code, which only counts    *)
(* them; the results array of Promise.allSettled is therefore kept as the  *)
(* pair (ok, bad) of the numbers of fulfilled and rejected entries, and    *)
(* the entries still pending are UnitSize - ok - bad.                      *)
(*                                                                         *)
(* Exceptions inside processBatch are raised by generateUserBatch or by    *)
(* the batch-summary reporting that follows the tally; both are choices of *)
(* the environment.                                                        *)
(*                                                                         *)
(* Spec and FairSpec are runs of seedUsers with a loaded configuration.    *)
(* StartSpec puts the start-up of the three entry points (import of        *)
(* config.ts, the options of index.ts, validateConfig, the constructor)    *)
(* before such a run and the exit status after it.  GenSpec follows the    *)
(* records that the generateUserBatch calls of one run return.             *)
(***************************************************************************)
EXTENDS Integers, Sequences, FiniteSets, TLC

\* ---------------------------------------------------------------- bounds
MaxTotal == 3
LiveTotal == 2
ExampleTotal == 10
MaxBatch == 3
MaxConcurrent == 3
BigBatch == 101
BigTotal == 102

\* ------------------------------------------------------ program constants
ChunkSize == 100
ConservativeCap == 100
MaxRetries == 3
BackoffUnit == 1000

NULL == -1

Policies == {"concurrent", "chunked", "conservative"}

\* Messages of the errors the remote createUser call can produce.
NetworkMessages == {"fetch failed", "ETIMEDOUT", "ECONNRESET"}
OtherMessages == {"duplicate email", "validation failed"}
ErrorMessages == NetworkMessages \cup OtherMessages
Ok == "ok"
Outcomes == {Ok} \cup ErrorMessages

\* The remote service is outside the program.  "any" lets every call end in
\* any outcome; the others are the stubs of the test scenarios: a creator
\* that always succeeds, one that always rejects (duplicate email), one
\* that always fails with a connection reset, and one that fails the first
\* two attempts for a record with a connection reset and then succeeds.
Creators == {"any", "alwaysOk", "alwaysDuplicate", "alwaysReset", "resetTwice"}

\* outcomes the creator can give to attempt number att for a record
CreatorOutcomes(cr, att) ==
  CASE cr = "any" -> Outcomes
    [] cr = "alwaysOk" -> {Ok}
    [] cr = "alwaysDuplicate" -> {"duplicate email"}
    [] cr = "alwaysReset" -> {"ECONNRESET"}
    [] cr = "resetTwice" -> IF att <= 2 THEN {"ECONNRESET"} ELSE {Ok}

VARIABLES
  policy,            \* which seeder runs
  totalUsers,        \* config.seeding.totalUsers
  batchSize,         \* config.seeding.batchSize
  concurrentBatches, \* config.seeding.concurrentBatches
  creator,           \* behaviour of the remote createUser operation in this run
  processedUsers,    \* this.processedUsers
  errors,            \* this.errors
  mainPc,            \* position of seedUsers
  currentBatch,      \* currentBatch (concurrent) / batchIndex (sequential loops)
  semaphore,         \* slot -> batch index of the promise held, or NULL
  batchSt,           \* batch index -> state of its processBatch invocation
  drainSet,          \* batches awaited by the final Promise.all
  attempt,           \* createUserWithRetry: attempt of the current record
  recHist,           \* outcomes of the attempts made for the current record
  recWaits,          \* backoff waits (ms) made for the current record
  calls,             \* number of remote createUser invocations so far
  nFulfilled,        \* remote calls that succeeded so far
  nRejected,         \* remote calls that failed so far
  caught,            \* batches whose processBatch ended in its catch block
  generated,         \* records returned by generateUserBatch so far
  recBase,           \* <<processedUsers, errors>> when the current record began
  dispatchLog,       \* <<batchIndex, currentBatchSize>> of every processBatch call
  summaries,         \* number of times finishSeeding ran
  env,               \* process.env: the settings read by config.ts
  args,              \* process.argv.slice(2)
  exitCode,          \* exit status of the process, NULL while it runs
  message,           \* message of the error caught by main, "" when none
  now,               \* Date.now(), in milliseconds since the run began
  sameMs,            \* generateUserBatch calls made since the clock last advanced
  users,             \* result of the latest generateUserBatch call
  allUsers,          \* every record generated in this run, in order
  eta                \* arguments and result of the latest calculateETA call

\* what no step of a running seeder writes
startVars == <<env, args, exitCode, message>>
genVars == <<now, sameMs, users, allUsers>>
cfgVars == <<policy, totalUsers, batchSize, concurrentBatches, creator,
             env, args, exitCode, message, now, sameMs, users, allUsers, eta>>
runCfgVars == <<policy, totalUsers, batchSize, concurrentBatches, creator>>
recVars == <<attempt, recHist, recWaits, recBase>>
callVars == <<calls, nFulfilled, nRejected, generated>>
vars == <<policy, totalUsers, batchSize, concurrentBatches, creator,
          processedUsers, errors, mainPc, currentBatch, semaphore, batchSt, drainSet,
          attempt, recHist, recWaits, recBase, calls, nFulfilled, nRejected,
          generated, caught, dispatchLog, summaries,
          env, args, exitCode, message, now, sameMs, users, allUsers, eta>>

\* ----------------------------------------------------------- arithmetic
Min(a, b) == IF a <= b THEN a ELSE b

\* Math.ceil(a / b) for a >= 0, b >= 1
Ceil(a, b) == (a + b - 1) \div b

EffBatchSizeUncapped(pol, bs) == bs

\* batchSize as seedUsers uses it: the conservative seeder caps it
EffBatchSize(pol, bs) ==
  IF pol = "conservative" THEN Min(bs, ConservativeCap) ELSE bs

\* const batches = Math.ceil(totalUsers / batchSize)
Batches(pol, total, bs) == Ceil(total, EffBatchSize(pol, bs))

\* remainingUsers / currentBatchSize of the batch with index idx
CurrentBatchSize(pol, total, bs, idx) ==
  LET remainingUsers == total - idx * EffBatchSize(pol, bs)
  IN  Min(EffBatchSize(pol, bs), remainingUsers)

NumBatches == Batches(policy, totalUsers, batchSize)
BatchIds == 0 .. NumBatches - 1
SlotsAtLeastOne == 0 .. (IF concurrentBatches < 1 THEN 1 ELSE concurrentBatches) - 1

\* the indices of new Array(concurrentBatches)
Slots == 0 .. concurrentBatches - 1

\* no calculateETA call was made yet
NoEta == [processed |-> NULL, total |-> NULL, elapsed |-> NULL,
          result |-> [text |-> "", hours |-> 0, minutes |-> 0, seconds |-> 0]]

\* ------------------------------------------------------------ batch state
NewBatch == [phase |-> "new", size |-> 0, i |-> 0, ok |-> 0, bad |-> 0, slot |-> NULL]

\* number of records of the unit (batch or sub-chunk) currently dispatched
UnitSizeWholeBatch(b) == batchSt[b].size

UnitSize(b) ==
  IF policy = "chunked" THEN Min(ChunkSize, batchSt[b].size - batchSt[b].i)
  ELSE batchSt[b].size

Pending(b) == UnitSize(b) - batchSt[b].ok - batchSt[b].bad

\* a synchronous stretch of some processBatch is under way
Busy == \E b \in BatchIds : batchSt[b].phase \in {"generating", "reporting"}

\* a resolved processBatch promise whose continuation has not run yet
Returned == \E b \in BatchIds : batchSt[b].phase = "returned"

\* seedUsers is suspended at an await, the event loop is free
Yielded == mainPc # "loop" /\ ~Busy

LoopConditionStopOnError == currentBatch < NumBatches /\ errors = 0

\* while (currentBatch < batches) / for (...; batchIndex < batches; ...)
LoopCondition == currentBatch < NumBatches

\* --------------------------------------------------- strings and parseInt
\* A string that the program parses or builds is a sequence of its
\* characters; the settings that are only tested for emptiness are strings.
Digits == <<"0", "1", "2", "3", "4", "5", "6", "7", "8", "9">>
IsDigit(c) == \E d \in 1 .. 10 : Digits[d] = c
DigitVal(c) == (CHOOSE d \in 1 .. 10 : Digits[d] = c) - 1

\* the value parseInt and isNaN treat as not-a-number
NaN == -2

RECURSIVE LeadingDigits(_)
\* number of decimal digits the string starts with
LeadingDigits(str) ==
  IF str = <<>> \/ ~IsDigit(Head(str)) THEN 0 ELSE 1 + LeadingDigits(Tail(str))

RECURSIVE DigitsValue(_, _)
\* value of the first n characters of str, all digits
DigitsValue(str, n) ==
  IF n = 0 THEN 0 ELSE DigitsValue(str, n - 1) * 10 + DigitVal(str[n])

\* parseInt(str) for strings without leading blanks, sign or radix prefix:
\* the longest prefix of digits, NaN when there is none
ParseInt(str) ==
  IF LeadingDigits(str) = 0 THEN NaN ELSE DigitsValue(str, LeadingDigits(str))

RECURSIVE NumberToString(_)
\* n.toString() for an integer n >= 0
NumberToString(n) ==
  IF n < 10 THEN <<Digits[n + 1]>>
  ELSE Append(NumberToString(n \div 10), Digits[(n % 10) + 1])

\* value || fallback: the unset and the empty setting are both falsy
OrDefault(value, fallback) == IF value = <<>> THEN fallback ELSE value

\* the defaults of config.ts
DefaultTotalUsers == <<"7", "0", "0", "0", "0", "0", "0">>
DefaultBatchSize == <<"1", "0", "0", "0">>
DefaultConcurrentBatches == <<"5">>

\* process.env of a run whose configuration is (total, bs, conc)
RunEnv(total, bs, conc) ==
  [SUPABASE_URL |-> "url", SUPABASE_SERVICE_ROLE_KEY |-> "key",
   TOTAL_USERS |-> NumberToString(total), BATCH_SIZE |-> NumberToString(bs),
   CONCURRENT_BATCHES |-> NumberToString(conc), DEBUG |-> "",
   DEFAULT_PASSWORD |-> "", EMAIL_DOMAIN |-> ""]

\* ------------------------------------------------------------------ Init
TotalChoices(small) == (0 .. small) \cup {ExampleTotal, BigTotal}
BatchChoices == (1 .. MaxBatch) \cup {BigBatch}

\* The configurations explored: every total up to small with every batch size and
\* every behaviour of the remote service; the total of the worked example
\* and the large total (which makes the sub-chunk size and the conservative
\* cap bind) with one batch size each and the stub creators.
ConfigOk(small, total, bs, cr) ==
  \/ total <= small
  \/ total = ExampleTotal /\ bs = MaxBatch /\ cr # "any"
  \/ total = BigTotal /\ bs = BigBatch /\ cr # "any"

InitWith(small, concs) ==
  /\ policy \in Policies
  /\ totalUsers \in TotalChoices(small)
  /\ batchSize \in BatchChoices
  /\ creator \in Creators
  /\ ConfigOk(small, totalUsers, batchSize, creator)
  /\ concurrentBatches \in (IF policy = "concurrent" THEN concs ELSE {0})
  /\ processedUsers = 0
  /\ errors = 0
  /\ mainPc = "loop"
  /\ currentBatch = 0
  /\ semaphore = [s \in Slots |-> NULL]
  /\ batchSt = [b \in BatchIds |-> NewBatch]
  /\ drainSet = {}
  /\ attempt = 0
  /\ recHist = <<>>
  /\ recWaits = <<>>
  /\ calls = 0
  /\ nFulfilled = 0
  /\ nRejected = 0
  /\ caught = {}
  /\ generated = 0
  /\ recBase = <<0, 0>>
  /\ dispatchLog = <<>>
  /\ summaries = 0
  /\ env = RunEnv(totalUsers, batchSize, concurrentBatches)
  /\ args = <<>>
  /\ exitCode = NULL
  /\ message = ""
  /\ now = 0
  /\ sameMs = 0
  /\ users = <<>>
  /\ allUsers = <<>>
  /\ eta = NoEta

Init == InitWith(MaxTotal, 1 .. MaxConcurrent)


\* ------------------------------------- AuthUserSeeder.seedUsers (concurrent)
\* semaphore.filter(slot => slot === null).length
AvailableSlotsOccupied == Cardinality({s \in Slots : semaphore[s] # NULL})

AvailableSlots == Cardinality({s \in Slots : semaphore[s] = NULL})

\* semaphore.findIndex(slot => slot === null): -1 when no slot is null
FindFreeSlotFirst == CHOOSE s \in Slots : \A t \in Slots : s <= t

FindFreeSlot ==
  IF \E s \in Slots : semaphore[s] = NULL
    THEN CHOOSE s \in Slots :
           semaphore[s] = NULL /\ \A t \in Slots : semaphore[t] = NULL => s <= t
    ELSE -1

\* semaphore[slotIndex] = value; an index outside the array adds a property
\* that filter and findIndex never visit
SetSlot(sem, slotIndex, value) ==
  IF slotIndex \in DOMAIN sem THEN [sem EXCEPT ![slotIndex] = value] ELSE sem

CanDispatchNoSlotCheck == currentBatch < NumBatches

\* if (availableSlots > 0 && currentBatch < batches)
CanDispatch == AvailableSlots > 0 /\ currentBatch < NumBatches

\* the loop body's then-branch: processBatch is called and its promise
\* stored in the free slot
SeedUsersDispatch ==
  /\ policy = "concurrent" /\ mainPc = "loop" /\ ~Busy
  /\ LoopCondition
  /\ CanDispatch
  /\ LET batchIndex == currentBatch
         currentBatchSize == CurrentBatchSize(policy, totalUsers, batchSize, batchIndex)
         slotIndex == FindFreeSlot
     IN  /\ currentBatch' = currentBatch + 1
         /\ semaphore' = SetSlot(semaphore, slotIndex, batchIndex)
         /\ batchSt' = [batchSt EXCEPT ![batchIndex] =
                          [NewBatch EXCEPT !.phase = "generating",
                                           !.size = currentBatchSize,
                                           !.slot = slotIndex]]
         /\ dispatchLog' = Append(dispatchLog, <<batchIndex, currentBatchSize>>)
  /\ UNCHANGED <<cfgVars, processedUsers, errors, mainPc, drainSet, recVars,
                 callVars, caught, summaries>>

\* the loop body's else-branch: await delay(100)
SeedUsersPoll ==
  /\ policy = "concurrent" /\ mainPc = "loop" /\ ~Busy
  /\ LoopCondition
  /\ ~CanDispatch
  /\ mainPc' = "polling"
  /\ UNCHANGED <<cfgVars, processedUsers, errors, currentBatch, semaphore,
                 batchSt, drainSet, recVars, callVars, caught, dispatchLog,
                 summaries>>

\* the delay(100) of the loop expires
SeedUsersPollWake ==
  /\ policy = "concurrent" /\ mainPc = "polling" /\ ~Busy /\ ~Returned
  /\ mainPc' = "loop"
  /\ UNCHANGED <<cfgVars, processedUsers, errors, currentBatch, semaphore,
                 batchSt, drainSet, recVars, callVars, caught, dispatchLog,
                 summaries>>

\* the promises the loop exit waits for: semaphore.filter(slot => slot !== null)
DrainPromisesNone == {}

DrainPromises == {semaphore[s] : s \in {t \in Slots : semaphore[t] # NULL}}

\* loop exit: await Promise.all(semaphore.filter(slot => slot !== null))
SeedUsersDrain ==
  /\ policy = "concurrent" /\ mainPc = "loop" /\ ~Busy
  /\ ~LoopCondition
  /\ mainPc' = "draining"
  /\ drainSet' = DrainPromises
  /\ UNCHANGED <<cfgVars, processedUsers, errors, currentBatch, semaphore,
                 batchSt, recVars, callVars, caught, dispatchLog, summaries>>

\* the Promise.all resolved: this.finishSeeding()
SeedUsersFinish ==
  /\ policy = "concurrent" /\ mainPc = "draining" /\ ~Busy
  /\ \A b \in drainSet : batchSt[b].phase = "done"
  /\ mainPc' = "finished"
  /\ summaries' = summaries + 1
  /\ UNCHANGED <<cfgVars, processedUsers, errors, currentBatch, semaphore,
                 batchSt, drainSet, recVars, callVars, caught, dispatchLog>>

\* ---------------------------------- AuthUserSeeder.processBatch (concurrent)
\* generateUserBatch returned; users.map(user => this.createUser(user))
ProcessBatchCreate(b) ==
  /\ policy = "concurrent"
  /\ batchSt[b].phase = "generating"
  /\ batchSt' = [batchSt EXCEPT ![b].phase = "creating"]
  /\ generated' = generated + batchSt[b].size
  /\ calls' = calls + batchSt[b].size
  /\ UNCHANGED <<cfgVars, processedUsers, errors, mainPc, currentBatch,
                 semaphore, drainSet, recVars, nFulfilled, nRejected,
                 caught, dispatchLog, summaries>>

\* createUser: one promise of the unit in flight settles, fulfilled when the
\* remote call returned no error and rejected otherwise
CreateUserSettle(b, outcome) ==
  /\ policy \in {"concurrent", "chunked"}
  /\ Yielded /\ ~Returned
  /\ batchSt[b].phase = "creating"
  /\ Pending(b) > 0
  /\ outcome \in CreatorOutcomes(creator, 1)
  /\ IF outcome = Ok
       THEN /\ batchSt' = [batchSt EXCEPT ![b].ok = @ + 1]
            /\ nFulfilled' = nFulfilled + 1
            /\ UNCHANGED nRejected
       ELSE /\ batchSt' = [batchSt EXCEPT ![b].bad = @ + 1]
            /\ nRejected' = nRejected + 1
            /\ UNCHANGED nFulfilled
  /\ UNCHANGED <<cfgVars, processedUsers, errors, mainPc, currentBatch,
                 semaphore, drainSet, recVars, calls, generated, caught, dispatchLog,
                 summaries>>

AllSettledAny(b) == Pending(b) < UnitSize(b) \/ UnitSize(b) = 0

AllSettledFailFast(b) == Pending(b) = 0 \/ batchSt[b].bad > 0

\* await Promise.allSettled(promises) resumes once no entry is pending
AllSettled(b) == Pending(b) = 0

RECURSIVE SettledOkUpTo(_)
\* fulfilled results not yet tallied, over the batches 0..n
SettledOkUpTo(n) == IF n < 0 THEN 0 ELSE batchSt[n].ok + SettledOkUpTo(n - 1)

RECURSIVE SettledBadUpTo(_)
\* rejected results not yet tallied, over the batches 0..n
SettledBadUpTo(n) == IF n < 0 THEN 0 ELSE batchSt[n].bad + SettledBadUpTo(n - 1)

SuccessesTwice(b) == 2 * batchSt[b].ok

SuccessesSharedResults(b) == SettledOkUpTo(NumBatches - 1)

\* results.filter(result => result.status === 'fulfilled').length
Successes(b) == batchSt[b].ok

FailuresWrongStatus(b) == 0

\* results.filter(result => result.status === 'rejected').length
Failures(b) == batchSt[b].bad

\* this.processedUsers += successes; this.errors += failures
ProcessBatchTally(b) ==
  /\ policy = "concurrent"
  /\ Yielded /\ ~Returned
  /\ batchSt[b].phase = "creating"
  /\ AllSettled(b)
  /\ processedUsers' = processedUsers + Successes(b)
  /\ errors' = errors + Failures(b)
  /\ batchSt' = [batchSt EXCEPT ![b].phase = "reporting", ![b].ok = 0, ![b].bad = 0]
  /\ UNCHANGED <<cfgVars, mainPc, currentBatch, semaphore, drainSet, recVars,
                 callVars, caught, dispatchLog, summaries>>

\* progress bar and log lines written; await delay(100)
ProcessBatchReport(b) ==
  /\ policy = "concurrent"
  /\ batchSt[b].phase = "reporting"
  /\ batchSt' = [batchSt EXCEPT ![b].phase = "pause"]
  /\ UNCHANGED <<cfgVars, processedUsers, errors, mainPc, currentBatch,
                 semaphore, drainSet, recVars, callVars, caught,
                 dispatchLog, summaries>>

CatchErrorsConfigSize(b) == errors + batchSize

CatchErrorsUncountedOnly(b) ==
  IF batchSt[b].phase = "reporting" THEN errors ELSE errors + batchSt[b].size

\* this.errors += batchSize   (batchSize: the parameter of processBatch)
CatchErrors(b) == errors + batchSt[b].size

\* catch (error): the try block threw, in generateUserBatch or in the
\* reporting; the same handler ends processBatch in the three seeders
ProcessBatchCatch(b) ==
  /\ batchSt[b].phase \in {"generating", "reporting"}
  /\ errors' = CatchErrors(b)
  /\ caught' = caught \cup {b}
  /\ batchSt' = [batchSt EXCEPT ![b].phase = "returned", ![b].i = 0]
  /\ attempt' = 0
  /\ recHist' = <<>>
  /\ recWaits' = <<>>
  /\ recBase' = <<0, 0>>
  /\ UNCHANGED <<cfgVars, processedUsers, mainPc, currentBatch, semaphore,
                 drainSet, callVars, dispatchLog, summaries>>

\* the delay(100) that ends processBatch expires
ProcessBatchPauseDone(b) ==
  /\ policy = "concurrent"
  /\ Yielded /\ ~Returned
  /\ batchSt[b].phase = "pause"
  /\ batchSt' = [batchSt EXCEPT ![b].phase = "returned"]
  /\ UNCHANGED <<cfgVars, processedUsers, errors, mainPc, currentBatch,
                 semaphore, drainSet, recVars, callVars, caught,
                 dispatchLog, summaries>>

\* .finally(() => { semaphore[slotIndex] = null; })
ProcessBatchFinally(b) ==
  /\ policy = "concurrent"
  /\ Yielded
  /\ batchSt[b].phase = "returned"
  /\ semaphore' = SetSlot(semaphore, batchSt[b].slot, NULL)
  /\ batchSt' = [batchSt EXCEPT ![b].phase = "done"]
  /\ UNCHANGED <<cfgVars, processedUsers, errors, mainPc, currentBatch,
                 drainSet, recVars, callVars, caught, dispatchLog, summaries>>

\* ------------------- BatchSeeder.seedUsers, ConservativeSeeder.seedUsers
\* for (batchIndex < batches): await this.processBatch(batchIndex, currentBatchSize)
LoopDispatch ==
  /\ policy \in {"chunked", "conservative"} /\ mainPc = "loop"
  /\ LoopCondition
  /\ LET batchIndex == currentBatch
         currentBatchSize == CurrentBatchSize(policy, totalUsers, batchSize, batchIndex)
     IN  /\ batchSt' = [batchSt EXCEPT ![batchIndex] =
                          [NewBatch EXCEPT !.phase = "generating",
                                           !.size = currentBatchSize]]
         /\ dispatchLog' = Append(dispatchLog, <<batchIndex, currentBatchSize>>)
  /\ mainPc' = "awaitBatch"
  /\ UNCHANGED <<cfgVars, processedUsers, errors, currentBatch, semaphore,
                 drainSet, recVars, callVars, caught, summaries>>

\* the for loop ends: this.finishSeeding()
LoopFinish ==
  /\ policy \in {"chunked", "conservative"} /\ mainPc = "loop"
  /\ ~LoopCondition
  /\ mainPc' = "finished"
  /\ summaries' = summaries + 1
  /\ UNCHANGED <<cfgVars, processedUsers, errors, currentBatch, semaphore,
                 batchSt, drainSet, recVars, callVars, caught, dispatchLog>>

\* BatchSeeder: processBatch resolved; await delay(200)
ChunkedBatchReturn(b) ==
  /\ policy = "chunked" /\ mainPc = "awaitBatch"
  /\ batchSt[b].phase = "returned"
  /\ batchSt' = [batchSt EXCEPT ![b].phase = "done"]
  /\ mainPc' = "batchPause"
  /\ UNCHANGED <<cfgVars, processedUsers, errors, currentBatch, semaphore,
                 drainSet, recVars, callVars, caught, dispatchLog, summaries>>

\* if (batchIndex < batches - 1)
DelayBetweenBatches == currentBatch < NumBatches - 1

\* ConservativeSeeder: processBatchConservative resolved; delay(2000)
\* unless this was the last batch
ConservativeBatchReturn(b) ==
  /\ policy = "conservative" /\ mainPc = "awaitBatch"
  /\ batchSt[b].phase = "returned"
  /\ batchSt' = [batchSt EXCEPT ![b].phase = "done"]
  /\ IF DelayBetweenBatches
       THEN mainPc' = "batchPause" /\ UNCHANGED currentBatch
       ELSE mainPc' = "loop" /\ currentBatch' = currentBatch + 1
  /\ UNCHANGED <<cfgVars, processedUsers, errors, semaphore, drainSet,
                 recVars, callVars, caught, dispatchLog, summaries>>

\* the delay after a batch expires; batchIndex++
BatchPauseDone ==
  /\ policy \in {"chunked", "conservative"} /\ mainPc = "batchPause"
  /\ mainPc' = "loop"
  /\ currentBatch' = currentBatch + 1
  /\ UNCHANGED <<cfgVars, processedUsers, errors, semaphore, batchSt,
                 drainSet, recVars, callVars, caught, dispatchLog, summaries>>

\* --------------------------------------- BatchSeeder.processBatch (chunked)
\* generateUserBatch returned; the first chunk's createUser calls start
ChunkedCreate(b) ==
  /\ policy = "chunked"
  /\ batchSt[b].phase = "generating"
  /\ batchSt' = [batchSt EXCEPT ![b].phase = "creating"]
  /\ generated' = generated + batchSt[b].size
  /\ calls' = calls + UnitSize(b)
  /\ UNCHANGED <<cfgVars, processedUsers, errors, mainPc, currentBatch,
                 semaphore, drainSet, recVars, nFulfilled, nRejected,
                 caught, dispatchLog, summaries>>

\* the chunk's allSettled resumed: counters updated; await delay(50)
ChunkTally(b) ==
  /\ policy = "chunked"
  /\ batchSt[b].phase = "creating"
  /\ AllSettled(b)
  /\ processedUsers' = processedUsers + Successes(b)
  /\ errors' = errors + Failures(b)
  /\ batchSt' = [batchSt EXCEPT ![b].phase = "chunkPause", ![b].ok = 0, ![b].bad = 0]
  /\ UNCHANGED <<cfgVars, mainPc, currentBatch, semaphore, drainSet, recVars,
                 callVars, caught, dispatchLog, summaries>>

\* the delay(50) expires; i += chunkSize; next chunk, or the loop ends
ChunkPauseDone(b) ==
  /\ policy = "chunked"
  /\ batchSt[b].phase = "chunkPause"
  /\ LET next == batchSt[b].i + ChunkSize
     IN  IF next < batchSt[b].size
           THEN /\ batchSt' = [batchSt EXCEPT ![b].i = next, ![b].phase = "creating"]
                /\ calls' = calls + Min(ChunkSize, batchSt[b].size - next)
           ELSE /\ batchSt' = [batchSt EXCEPT ![b].i = 0, ![b].phase = "reporting"]
                /\ UNCHANGED calls
  /\ UNCHANGED <<cfgVars, processedUsers, errors, mainPc, currentBatch,
                 semaphore, drainSet, recVars, nFulfilled, nRejected,
                 generated, caught, dispatchLog, summaries>>

\* the batch's log lines written: processBatch returns
ChunkedReport(b) ==
  /\ policy = "chunked"
  /\ batchSt[b].phase = "reporting"
  /\ batchSt' = [batchSt EXCEPT ![b].phase = "returned"]
  /\ UNCHANGED <<cfgVars, processedUsers, errors, mainPc, currentBatch,
                 semaphore, drainSet, recVars, callVars, caught,
                 dispatchLog, summaries>>

\* ---------------------- ConservativeSeeder.processBatchConservative
IsNetworkErrorAny(msg) == TRUE

\* error.message.includes('fetch failed') || includes('ETIMEDOUT') || includes('ECONNRESET')
IsNetworkError(msg) == msg \in {"fetch failed", "ETIMEDOUT", "ECONNRESET"}

ShouldRetryOffByOne(msg, att) == IsNetworkError(msg) /\ att <= MaxRetries

ShouldRetryAnyError(msg, att) == att < MaxRetries

\* if (isNetworkError && attempt < maxRetries)
ShouldRetry(msg, att) == IsNetworkError(msg) /\ att < MaxRetries

WaitTimeConstant(att) == BackoffUnit

\* const waitTime = attempt * 1000
WaitTime(att) == att * BackoffUnit

\* generateUserBatch returned; createUserWithRetry(users[0]) makes attempt 1
ConservativeCreateNoAwait(b) ==
  /\ policy = "conservative"
  /\ batchSt[b].phase = "generating"
  /\ batchSt' = [batchSt EXCEPT ![b].phase = "calling"]
  /\ attempt' = 1
  /\ recHist' = <<>>
  /\ recWaits' = <<>>
  /\ recBase' = <<processedUsers, errors>>
  /\ generated' = generated + batchSt[b].size
  /\ calls' = calls + batchSt[b].size
  /\ UNCHANGED <<cfgVars, processedUsers, errors, mainPc, currentBatch,
                 semaphore, drainSet, nFulfilled, nRejected, caught,
                 dispatchLog, summaries>>

ConservativeCreate(b) ==
  /\ policy = "conservative"
  /\ batchSt[b].phase = "generating"
  /\ batchSt' = [batchSt EXCEPT ![b].phase = "calling"]
  /\ attempt' = 1
  /\ recHist' = <<>>
  /\ recWaits' = <<>>
  /\ recBase' = <<processedUsers, errors>>
  /\ generated' = generated + batchSt[b].size
  /\ calls' = calls + 1
  /\ UNCHANGED <<cfgVars, processedUsers, errors, mainPc, currentBatch,
                 semaphore, drainSet, nFulfilled, nRejected, caught,
                 dispatchLog, summaries>>

\* the remote call of the current attempt returns
CreateUserWithRetrySettle(b, outcome) ==
  /\ policy = "conservative"
  /\ batchSt[b].phase = "calling"
  /\ outcome \in CreatorOutcomes(creator, attempt)
  /\ recHist' = Append(recHist, outcome)
  /\ IF outcome = Ok
       THEN \* return; processedInBatch++; this.processedUsers++; await delay(100)
            /\ processedUsers' = processedUsers + 1
            /\ nFulfilled' = nFulfilled + 1
            /\ batchSt' = [batchSt EXCEPT ![b].phase = "recPause"]
            /\ UNCHANGED <<errors, nRejected, recWaits>>
       ELSE IF ShouldRetry(outcome, attempt)
         THEN \* await delay(waitTime); continue
              /\ recWaits' = Append(recWaits, WaitTime(attempt))
              /\ nRejected' = nRejected + 1
              /\ batchSt' = [batchSt EXCEPT ![b].phase = "backoff"]
              /\ UNCHANGED <<processedUsers, errors, nFulfilled>>
         ELSE \* throw error; caught by the loop: errorsInBatch++; this.errors++
              /\ errors' = errors + 1
              /\ nRejected' = nRejected + 1
              /\ batchSt' = [batchSt EXCEPT ![b].phase = "recCaught"]
              /\ UNCHANGED <<processedUsers, nFulfilled, recWaits>>
  /\ UNCHANGED <<cfgVars, mainPc, currentBatch, semaphore, drainSet, attempt,
                 recBase, calls, generated, caught, dispatchLog, summaries>>

\* the backoff delay expires; continue: attempt++.  The next attempt calls
\* the remote service; were the for loop to end here, createUserWithRetry
\* would return normally and the record count as created
BackoffDone(b) ==
  /\ policy = "conservative"
  /\ batchSt[b].phase = "backoff"
  /\ attempt' = attempt + 1
  /\ IF attempt + 1 <= MaxRetries
       THEN /\ calls' = calls + 1
            /\ batchSt' = [batchSt EXCEPT ![b].phase = "calling"]
            /\ UNCHANGED processedUsers
       ELSE /\ processedUsers' = processedUsers + 1
            /\ batchSt' = [batchSt EXCEPT ![b].phase = "recPause"]
            /\ UNCHANGED calls
  /\ UNCHANGED <<cfgVars, errors, mainPc, currentBatch,
                 semaphore, drainSet, recHist, recWaits, recBase, nFulfilled,
                 nRejected, generated, caught, dispatchLog, summaries>>

\* i++ of the record loop: the next record's first attempt, or the loop ends
NextRecord(b, from) ==
  /\ policy = "conservative"
  /\ batchSt[b].phase = from
  /\ IF batchSt[b].i + 1 < batchSt[b].size
       THEN /\ batchSt' = [batchSt EXCEPT ![b].i = @ + 1, ![b].phase = "calling"]
            /\ attempt' = 1
            /\ recBase' = <<processedUsers, errors>>
            /\ calls' = calls + 1
       ELSE /\ batchSt' = [batchSt EXCEPT ![b].i = 0, ![b].phase = "reporting"]
            /\ attempt' = 0
            /\ recBase' = <<0, 0>>
            /\ UNCHANGED calls
  /\ recHist' = <<>>
  /\ recWaits' = <<>>
  /\ UNCHANGED <<cfgVars, processedUsers, errors, mainPc, currentBatch,
                 semaphore, drainSet, nFulfilled, nRejected, generated, caught,
                 dispatchLog, summaries>>

\* the delay(100) after a created record expires
RecordPauseDone(b) == NextRecord(b, "recPause")

\* the catch block of the record loop ends
RecordCaughtDone(b) == NextRecord(b, "recCaught")

\* the batch's log lines written: processBatchConservative returns
ConservativeReport(b) ==
  /\ policy = "conservative"
  /\ batchSt[b].phase = "reporting"
  /\ batchSt' = [batchSt EXCEPT ![b].phase = "returned"]
  /\ UNCHANGED <<cfgVars, processedUsers, errors, mainPc, currentBatch,
                 semaphore, drainSet, recVars, callVars, caught,
                 dispatchLog, summaries>>

\* ------------------------------------------------------------------ Next
Next ==
  \/ SeedUsersDispatch
  \/ SeedUsersPoll
  \/ SeedUsersPollWake
  \/ SeedUsersDrain
  \/ SeedUsersFinish
  \/ LoopDispatch
  \/ LoopFinish
  \/ BatchPauseDone
  \/ \E b \in BatchIds : ProcessBatchCreate(b)
  \/ \E b \in BatchIds : \E o \in Outcomes : CreateUserSettle(b, o)
  \/ \E b \in BatchIds : ProcessBatchTally(b)
  \/ \E b \in BatchIds : ProcessBatchReport(b)
  \/ \E b \in BatchIds : ProcessBatchCatch(b)
  \/ \E b \in BatchIds : ProcessBatchPauseDone(b)
  \/ \E b \in BatchIds : ProcessBatchFinally(b)
  \/ \E b \in BatchIds : ChunkedBatchReturn(b)
  \/ \E b \in BatchIds : ConservativeBatchReturn(b)
  \/ \E b \in BatchIds : ChunkedCreate(b)
  \/ \E b \in BatchIds : ChunkTally(b)
  \/ \E b \in BatchIds : ChunkPauseDone(b)
  \/ \E b \in BatchIds : ChunkedReport(b)
  \/ \E b \in BatchIds : ConservativeCreate(b)
  \/ \E b \in BatchIds : \E o \in Outcomes : CreateUserWithRetrySettle(b, o)
  \/ \E b \in BatchIds : BackoffDone(b)
  \/ \E b \in BatchIds : RecordPauseDone(b)
  \/ \E b \in BatchIds : RecordCaughtDone(b)
  \/ \E b \in BatchIds : ConservativeReport(b)

Spec == Init /\ [][Next]_vars

\* A run in which every await eventually resumes: the event loop serves
\* every timer and every settled call, also those that are ready only while
\* seedUsers sleeps in its polling delay.
Progress ==
  \/ \E b \in BatchIds : \E o \in Outcomes : CreateUserSettle(b, o)
  \/ \E b \in BatchIds : ProcessBatchTally(b)
  \/ \E b \in BatchIds : ProcessBatchPauseDone(b)
  \/ \E b \in BatchIds : ProcessBatchFinally(b)

\* the runs checked for progress start from the smaller totals
LiveInit == InitWith(LiveTotal, 1 .. MaxConcurrent)

FairSpec == LiveInit /\ [][Next]_vars /\ WF_vars(Next) /\ SF_vars(Progress)

\* ------------------------------------------- start-up of the entry points
\* The three entry points are index.ts (concurrent), batch-seeder.ts
\* (chunked) and conservative-seeder.ts (conservative).  A process goes
\* through mainPc = "import" (the imports are evaluated, config.ts among
\* them), "args" (index.ts only: the options are read), "main" (index.ts
\* only: validateConfig), "construct" (new ...Seeder()), then the run of
\* seedUsers from "loop" to "finished"; "exited" is a process that ended
\* without a run.  batchSt has one entry per batch of the loaded configuration,
\* each "new" until seedUsers calls processBatch for it.
StartTotal == 2

\* the options of index.ts; an option is its text up to and including '='
\* and the text after it (which holds no further '=')
ArgValues ==
  {NumberToString(n) : n \in 1 .. StartTotal} \cup {<<"3", "x">>, <<"x">>, <<>>}
ValueOpts == {"--users=", "--batch=", "--concurrent="}
ArgChoices ==
  {[opt |-> o, val |-> v] : o \in ValueOpts, v \in ArgValues}
    \cup {[opt |-> "--debug", val |-> <<>>], [opt |-> "--help", val |-> <<>>]}
ArgLists == {<<>>} \cup {<<a>> : a \in ArgChoices}

\* the environments explored: each credential present or missing, the total
\* always set (the default total is seven million records), the other two
\* settings unset or set
StartEnvs ==
  [SUPABASE_URL : {"", "url"}, SUPABASE_SERVICE_ROLE_KEY : {"", "key"},
   TOTAL_USERS : {NumberToString(n) : n \in 1 .. StartTotal},
   BATCH_SIZE : {<<>>, NumberToString(1)},
   CONCURRENT_BATCHES : {<<>>, NumberToString(1)},
   DEBUG : {""}, DEFAULT_PASSWORD : {""}, EMAIL_DOMAIN : {""}]

StartInit ==
  /\ policy \in Policies
  /\ creator = "any"
  /\ env \in StartEnvs
  /\ args \in (IF policy = "concurrent" THEN ArgLists ELSE {<<>>})
  /\ mainPc = "import"
  /\ totalUsers = 0
  /\ batchSize = 1
  /\ concurrentBatches = 0
  /\ processedUsers = 0
  /\ errors = 0
  /\ currentBatch = 0
  /\ semaphore = [s \in {} |-> NULL]
  /\ batchSt = [b \in {} |-> NewBatch]
  /\ drainSet = {}
  /\ attempt = 0
  /\ recHist = <<>>
  /\ recWaits = <<>>
  /\ calls = 0
  /\ nFulfilled = 0
  /\ nRejected = 0
  /\ caught = {}
  /\ generated = 0
  /\ recBase = <<0, 0>>
  /\ dispatchLog = <<>>
  /\ summaries = 0
  /\ exitCode = NULL
  /\ message = ""
  /\ now = 0
  /\ sameMs = 0
  /\ users = <<>>
  /\ allUsers = <<>>
  /\ eta = NoEta

runVars == <<processedUsers, errors, currentBatch, drainSet, recVars, callVars,
             caught, dispatchLog, summaries, eta>>

\* import { config } from './config': the module is evaluated when it is
\* imported, and config.seeding takes its numbers from process.env then
LoadConfig ==
  /\ mainPc = "import"
  /\ totalUsers' = ParseInt(OrDefault(env.TOTAL_USERS, DefaultTotalUsers))
  /\ batchSize' = ParseInt(OrDefault(env.BATCH_SIZE, DefaultBatchSize))
  /\ concurrentBatches' =
       ParseInt(OrDefault(env.CONCURRENT_BATCHES, DefaultConcurrentBatches))
  /\ batchSt' = [b \in 0 .. Batches(policy, totalUsers', batchSize') - 1 |-> NewBatch]
  /\ mainPc' = IF policy = "concurrent" THEN "args" ELSE "construct"
  /\ UNCHANGED <<policy, creator, startVars, genVars, runVars, semaphore>>

\* args.includes('--help') || args.includes('-h')
HelpRequested == \E k \in 1 .. Len(args) : args[k].opt = "--help"

\* one turn of args.forEach: the effect of one option on process.env
ParseArg(e, arg) ==
  LET n == ParseInt(arg.val)
  IN  CASE arg.opt = "--users=" ->
             IF n # NaN THEN [e EXCEPT !.TOTAL_USERS = NumberToString(n)] ELSE e
        [] arg.opt = "--batch=" ->
             IF n # NaN THEN [e EXCEPT !.BATCH_SIZE = NumberToString(n)] ELSE e
        [] arg.opt = "--concurrent=" ->
             IF n # NaN THEN [e EXCEPT !.CONCURRENT_BATCHES = NumberToString(n)] ELSE e
        [] arg.opt = "--debug" -> [e EXCEPT !.DEBUG = "true"]
        [] OTHER -> e

RECURSIVE ParseArgsFrom(_, _)
\* args.forEach(...) over the options list
ParseArgsFrom(e, list) ==
  IF list = <<>> THEN e ELSE ParseArgsFrom(ParseArg(e, Head(list)), Tail(list))

ExitOnHelp == 0
ExitOnCompletionErrors == IF errors > 0 THEN 1 ELSE 0

\* main returned after seedUsers resolved: the process ends by itself
ExitOnCompletion == 0
ExitOnFailure == 1

\* the top level of index.ts: help, or the options written to process.env
ParseArgs ==
  /\ mainPc = "args"
  /\ IF HelpRequested
       THEN /\ exitCode' = ExitOnHelp
            /\ mainPc' = "exited"
            /\ UNCHANGED env
       ELSE /\ env' = ParseArgsFrom(env, args)
            /\ mainPc' = "main"
            /\ UNCHANGED exitCode
  /\ UNCHANGED <<runCfgVars, args, message, genVars, runVars, semaphore, batchSt>>

\* the message validateConfig throws, "" when it returns; config.supabase
\* holds the two credentials as process.env had them at import, and no step
\* writes them afterwards
ValidateConfig ==
  IF env.SUPABASE_URL = "" THEN "SUPABASE_URL is required"
  ELSE IF env.SUPABASE_SERVICE_ROLE_KEY = "" THEN "SUPABASE_SERVICE_ROLE_KEY is required"
  ELSE ""

\* main of index.ts: validateConfig(), caught by main's catch when it throws
MainValidate ==
  /\ mainPc = "main"
  /\ IF ValidateConfig # ""
       THEN /\ message' = ValidateConfig
            /\ exitCode' = ExitOnFailure
            /\ mainPc' = "exited"
       ELSE /\ mainPc' = "construct"
            /\ UNCHANGED <<message, exitCode>>
  /\ UNCHANGED <<runCfgVars, env, args, genVars, runVars, semaphore, batchSt>>

\* new ...Seeder() and the entry of seedUsers.  createClient belongs to the
\* client library: whether it accepts its arguments is the library's choice;
\* what it throws is caught by main's catch.
NewSeeder ==
  /\ mainPc = "construct"
  /\ \E thrown \in BOOLEAN :
       IF thrown
         THEN /\ message' = "createClient failed"
              /\ exitCode' = ExitOnFailure
              /\ mainPc' = "exited"
              /\ UNCHANGED semaphore
         ELSE /\ mainPc' = "loop"
              /\ semaphore' = [s \in Slots |-> NULL]
              /\ UNCHANGED <<message, exitCode>>
  /\ UNCHANGED <<runCfgVars, env, args, genVars, runVars, batchSt>>

\* seedUsers resolved and main returns
MainReturn ==
  /\ mainPc = "finished"
  /\ exitCode = NULL
  /\ exitCode' = ExitOnCompletion
  /\ UNCHANGED <<runCfgVars, env, args, message, genVars, runVars, mainPc,
                 semaphore, batchSt>>

StartNext ==
  \/ LoadConfig
  \/ ParseArgs
  \/ MainValidate
  \/ NewSeeder
  \/ MainReturn
  \/ Next

StartSpec == StartInit /\ [][StartNext]_vars

\* ------------------------------------------------------ generateUserBatch
GenTotal == 3
GenBatch == 2
GenConcurrent == 2
MaxClock == 2

\* the first entries of the two name tables
firstNames == <<"John", "Jane">>
lastNames == <<"Smith", "Johnson">>

\* name.toLowerCase() on the names of the tables
ToLowerCase(name) ==
  CASE name = "John" -> "john"
    [] name = "Jane" -> "jane"
    [] name = "Smith" -> "smith"
    [] name = "Johnson" -> "johnson"

\* the template string of the email, kept as the sequence of its pieces;
\* the names hold neither '.' nor '-' nor '@' and the two numbers only
\* digits, so two emails are equal exactly when their pieces are
EmailNoIndex(firstName, lastName, timestamp, i, emailDomain) ==
  <<ToLowerCase(firstName), ".", ToLowerCase(lastName), ".", timestamp, "@", emailDomain>>

Email(firstName, lastName, timestamp, i, emailDomain) ==
  <<ToLowerCase(firstName), ".", ToLowerCase(lastName), ".", timestamp, "-", i,
    "@", emailDomain>>

\* the values Math.floor(Math.random() * table.length) can take for one record
NamePicks == (1 .. Len(firstNames)) \X (1 .. Len(lastNames))

\* generateUserBatch(size, emailDomain, defaultPassword) when Date.now()
\* returns timestamp and the random picks of record i are picks[i + 1]
GenerateUserBatch(size, emailDomain, defaultPassword, timestamp, picks) ==
  [k \in 1 .. size |->
     LET firstName == firstNames[picks[k][1]]
         lastName == lastNames[picks[k][2]]
     IN  [email |-> Email(firstName, lastName, timestamp, k - 1, emailDomain),
          password |-> defaultPassword,
          user_metadata |-> [first_name |-> firstName, last_name |-> lastName,
                             email_verified |-> TRUE]]]

\* config.seeding.emailDomain and config.seeding.defaultPassword
EmailDomain == IF env.EMAIL_DOMAIN = "" THEN "example.com" ELSE env.EMAIL_DOMAIN
DefaultPassword ==
  IF env.DEFAULT_PASSWORD = "" THEN "password123" ELSE env.DEFAULT_PASSWORD

\* The records of a run: the loop of seedUsers reduced to its calls of
\* generateUserBatch and the clock these read.  The concurrent loop calls
\* processBatch, and with it generateUserBatch, for up to concurrentBatches
\* batches without an await in between, so these calls can read the same
\* millisecond; the sequential loops await at least one timer between two
\* calls.
GenInit ==
  /\ policy \in Policies
  /\ totalUsers \in 0 .. GenTotal
  /\ batchSize \in 1 .. GenBatch
  /\ creator = "any"
  /\ concurrentBatches \in (IF policy = "concurrent" THEN 1 .. GenConcurrent ELSE {0})
  /\ env \in {[RunEnv(totalUsers, batchSize, concurrentBatches)
                 EXCEPT !.EMAIL_DOMAIN = d, !.DEFAULT_PASSWORD = p] :
                d \in {"", "test.io"}, p \in {"", "secret"}}
  /\ processedUsers = 0
  /\ errors = 0
  /\ mainPc = "loop"
  /\ currentBatch = 0
  /\ semaphore = [s \in Slots |-> NULL]
  /\ batchSt = [b \in BatchIds |-> NewBatch]
  /\ drainSet = {}
  /\ attempt = 0
  /\ recHist = <<>>
  /\ recWaits = <<>>
  /\ calls = 0
  /\ nFulfilled = 0
  /\ nRejected = 0
  /\ caught = {}
  /\ generated = 0
  /\ recBase = <<0, 0>>
  /\ dispatchLog = <<>>
  /\ summaries = 0
  /\ args = <<>>
  /\ exitCode = NULL
  /\ message = ""
  /\ now = 0
  /\ sameMs = 0
  /\ users = <<>>
  /\ allUsers = <<>>
  /\ eta = NoEta

\* calls of generateUserBatch that can read one value of the clock
CallsPerMs == IF policy = "concurrent" THEN concurrentBatches ELSE 1

\* the next batch of the loop is generated
GenerateStep ==
  /\ currentBatch < NumBatches
  /\ sameMs < CallsPerMs
  /\ LET size == CurrentBatchSize(policy, totalUsers, batchSize, currentBatch)
     IN  \E picks \in [1 .. size -> NamePicks] :
           /\ users' = GenerateUserBatch(size, EmailDomain, DefaultPassword, now, picks)
           /\ allUsers' = allUsers \o users'
  /\ currentBatch' = currentBatch + 1
  /\ sameMs' = sameMs + 1
  /\ UNCHANGED <<runCfgVars, startVars, now, processedUsers, errors, mainPc,
                 semaphore, batchSt, drainSet, recVars, callVars, caught,
                 dispatchLog, summaries, eta>>

\* a millisecond passes
ClockTick ==
  /\ now < MaxClock
  /\ now' = now + 1
  /\ sameMs' = 0
  /\ UNCHANGED <<runCfgVars, startVars, users, allUsers, processedUsers, errors,
                 mainPc, currentBatch, semaphore, batchSt, drainSet, recVars,
                 callVars, caught, dispatchLog, summaries, eta>>

GenNext ==
  \/ GenerateStep
  \/ ClockTick

GenSpec == GenInit /\ [][GenNext]_vars

\* ----------------------------------------------------------- calculateETA
EtaTotal == 3

MsPerSecond == 1000
MsPerMinute == MsPerSecond * 60
MsPerHour == MsPerSecond * 60 * 60

\* the values of Date.now() - startTime at which the clock is sampled
ElapsedChoices == {0, 500, 1000, 90000, 1800000, 5400000}

RemainingWholeTotal(processed, total) == total

\* const remaining = total - processed
Remaining(processed, total) == total - processed

\* etaMs = remaining / (processed / elapsed) is the fraction
\* (remaining * elapsed) / processed, kept exact: the rounding of the two
\* floating-point divisions is left out.  Math.floor(etaMs / unit):
FloorEta(processed, total, elapsed, unit) ==
  (Remaining(processed, total) * elapsed) \div (processed * unit)

\* Math.floor((etaMs % modulus) / unit)
FloorEtaMod(processed, total, elapsed, modulus, unit) ==
  LET whole == FloorEta(processed, total, elapsed, modulus)
  IN  (Remaining(processed, total) * elapsed - whole * modulus * processed)
        \div (processed * unit)

\* calculateETA when Date.now() - startTime is elapsed; the returned string
\* is kept as its template and the numbers put into it
CalculateETAAt(processed, total, elapsed) ==
  IF processed = 0
    THEN [text |-> "Calculating...", hours |-> 0, minutes |-> 0, seconds |-> 0]
    ELSE LET hours == FloorEta(processed, total, elapsed, MsPerHour)
             minutes == FloorEtaMod(processed, total, elapsed, MsPerHour, MsPerMinute)
             seconds == FloorEtaMod(processed, total, elapsed, MsPerMinute, MsPerSecond)
         IN  IF hours > 0
               THEN [text |-> "h m s", hours |-> hours, minutes |-> minutes,
                     seconds |-> seconds]
             ELSE IF minutes > 0
               THEN [text |-> "m s", hours |-> 0, minutes |-> minutes,
                     seconds |-> seconds]
             ELSE [text |-> "s", hours |-> 0, minutes |-> 0, seconds |-> seconds]

\* calculateETA(processed, total, startTime)
CalculateETA(processed, total, startTime) ==
  CalculateETAAt(processed, total, now - startTime)

\* The calls of calculateETA that the batch reports of one run make: between
\* two calls the clock advances and records are added to processedUsers.
\* this.startTime is the clock value 0.
EtaInit ==
  /\ InitWith(EtaTotal, {1})
  /\ policy = "concurrent"
  /\ totalUsers \in 1 .. EtaTotal
  /\ batchSize = 1
  /\ creator = "any"

etaFrame == <<runCfgVars, startVars, sameMs, users, allUsers, errors, mainPc,
              currentBatch, semaphore, batchSt, drainSet, recVars, callVars,
              caught, dispatchLog, summaries>>

\* the clock moves on to a later sample
EtaTick ==
  /\ \E t \in ElapsedChoices : t > now /\ now' = t
  /\ UNCHANGED <<etaFrame, processedUsers, eta>>

\* a tally adds the successes of a batch
EtaProgress ==
  /\ \E successes \in 1 .. totalUsers - processedUsers :
       processedUsers' = processedUsers + successes
  /\ UNCHANGED <<etaFrame, now, eta>>

\* const eta = calculateETA(this.processedUsers, config.seeding.totalUsers, this.startTime)
EtaCall ==
  /\ eta' = [processed |-> processedUsers, total |-> totalUsers, elapsed |-> now,
             result |-> CalculateETA(processedUsers, totalUsers, 0)]
  /\ eta' # eta
  /\ UNCHANGED <<etaFrame, now, processedUsers>>

EtaNext ==
  \/ EtaTick
  \/ EtaProgress
  \/ EtaCall

EtaSpec == EtaInit /\ [][EtaNext]_vars

\* the runs with an empty slot pool beside those with one slot
ZeroInit == InitWith(LiveTotal, {0, 1})

ZeroSpec == ZeroInit /\ [][Next]_vars /\ WF_vars(Next) /\ SF_vars(Progress)

\* ================================================================ claims
Finished == mainPc = "finished"

Phases(ph) == {b \in BatchIds : batchSt[b].phase = ph}

\* the batch size the policy is specified to use
SpecB == IF policy = "conservative" /\ batchSize > 100 THEN 100 ELSE batchSize

\* ceil(totalUsers / SpecB): the least n with n * SpecB >= totalUsers
SpecBatches == CHOOSE n \in 0 .. totalUsers : n * SpecB >= totalUsers /\ \A m \in 0 .. n - 1 : m * SpecB < totalUsers

\* the specified size of batch idx
SpecSize(idx) == IF idx < SpecBatches - 1 THEN SpecB ELSE totalUsers - (SpecBatches - 1) * SpecB

RECURSIVE SumSizes(_)
SumSizes(log) == IF log = <<>> THEN 0 ELSE log[1][2] + SumSizes(Tail(log))

RECURSIVE SumSeq(_)
SumSeq(q) == IF q = <<>> THEN 0 ELSE q[1] + SumSeq(Tail(q))

\* C1: in every policy, a run that completes without a whole-batch
\* exception has processed_count + error_count = total_count.
Thm_C1 == (Finished /\ caught = {}) => processedUsers + errors = totalUsers

\* the worked example: total 10 in batches of 3 with a creator that always
\* succeeds ends with 10 processed and no error
Wit_C1 ==
  /\ Finished /\ caught = {} /\ creator = "alwaysOk"
  /\ totalUsers = ExampleTotal /\ batchSize = MaxBatch
  /\ processedUsers = ExampleTotal /\ errors = 0

\* batches of the concurrent policy dispatched and not yet completed
InFlight == {b \in BatchIds : batchSt[b].phase \notin {"new", "done"}}

\* C2: in the concurrent policy the number of batches in flight (their
\* trailing pause included) never exceeds concurrency_limit.
Thm_C2 == policy = "concurrent" => Cardinality(InFlight) <= concurrentBatches

\* the pool is full while more batches wait, one batch being in its pause
Wit_C2 ==
  /\ policy = "concurrent" /\ concurrentBatches >= 2
  /\ Cardinality(InFlight) = concurrentBatches
  /\ currentBatch < NumBatches
  /\ Phases("pause") # {}

\* C3: each policy dispatches exactly ceil(total / b) batches, b being
\* batch_size (min(batch_size, 100) in the conservative policy); batch k
\* has index k, every batch but the last has size b, the last one has the
\* remainder, which lies in 1..b, and the sizes sum to total_count.
Thm_C3 ==
  /\ Len(dispatchLog) <= SpecBatches
  /\ \A k \in 1 .. Len(dispatchLog) :
       /\ dispatchLog[k][1] = k - 1
       /\ dispatchLog[k][2] = SpecSize(k - 1)
       /\ dispatchLog[k][2] \in 1 .. SpecB
       /\ (k < SpecBatches => dispatchLog[k][2] = SpecB)
  /\ Finished => /\ Len(dispatchLog) = SpecBatches
                 /\ SumSizes(dispatchLog) = totalUsers

\* a finished conservative run whose configured batch size exceeds the cap
Wit_C3 ==
  /\ Finished /\ policy = "conservative"
  /\ batchSize > 100 /\ totalUsers > 100
  /\ Len(dispatchLog) >= 2
  /\ dispatchLog[1][2] = 100

\* C4: in the concurrent and chunked policies the remote create operation
\* is invoked exactly once per generated record, every call's outcome is
\* counted whatever its siblings did, and at completion processed_count is
\* the number of calls that succeeded and (no whole-batch exception having
\* occurred) error_count the number that failed.
Thm_C4 ==
  policy \in {"concurrent", "chunked"} =>
    /\ calls <= generated
    /\ nFulfilled + nRejected <= calls
    /\ Finished =>
         /\ calls = generated
         /\ nFulfilled + nRejected = calls
         /\ processedUsers = nFulfilled
         /\ (caught = {} => errors = nRejected /\ generated = totalUsers)

\* a finished run in which calls of one batch failed and others succeeded
Wit_C4 ==
  /\ Finished /\ policy \in {"concurrent", "chunked"} /\ caught = {}
  /\ NumBatches = 1
  /\ nRejected > 0 /\ nFulfilled > 0
  /\ errors = nRejected /\ processedUsers = nFulfilled

Last(q) == q[Len(q)]

\* C5: in the conservative policy a record whose first two attempts fail
\* with a connection reset and whose third succeeds is recorded as a success
\* (processed_count +1, error_count +0) after exactly 2 retries, and its
\* backoff waits add up to 1 s + 2 s.
Thm_C5 ==
  (policy = "conservative" /\ recHist = <<"ECONNRESET", "ECONNRESET", Ok>>) =>
    /\ Phases("recPause") # {}
    /\ attempt - 1 = 2
    /\ processedUsers = recBase[1] + 1
    /\ errors = recBase[2]
    /\ Len(recWaits) = 2
    /\ SumSeq(recWaits) = 1000 + 2000

\* the stub that resets twice has just had a record created
Wit_C5 ==
  /\ policy = "conservative" /\ creator = "resetTwice"
  /\ recHist = <<"ECONNRESET", "ECONNRESET", Ok>>
  /\ Phases("recPause") # {}
  /\ processedUsers = recBase[1] + 1

\* C6: in the conservative policy the remote create operation is invoked
\* at most 3 times for a record; a record whose 3 attempts all fail with a
\* transient error is abandoned and counted as exactly one error; the
\* backoff before attempt k+1 is k seconds, and none follows the last
\* attempt.
Thm_C6 ==
  policy = "conservative" =>
    /\ attempt <= 3
    /\ Len(recHist) <= attempt
    /\ Len(recWaits) <= 2
    /\ \A k \in 1 .. Len(recWaits) : recWaits[k] = k * 1000
    /\ (Len(recHist) = 3 /\ \A k \in 1 .. 3 : recHist[k] \in NetworkMessages) =>
         /\ Phases("recCaught") # {}
         /\ errors = recBase[2] + 1
         /\ processedUsers = recBase[1]
         /\ Len(recWaits) = 2

\* a record abandoned after three transient failures
Wit_C6 ==
  /\ policy = "conservative"
  /\ Len(recHist) = 3 /\ \A k \in 1 .. 3 : recHist[k] \in NetworkMessages
  /\ Phases("recCaught") # {}
  /\ recWaits = <<1000, 2000>>

Orig_C8 ==
  /\ (policy = "conservative" /\ Phases("recCaught") # {} /\ Last(recHist) \in OtherMessages) =>
       (Len(recHist) = MaxRetries /\ Len(recWaits) = MaxRetries - 1)
  /\ policy \in {"concurrent", "chunked"} => calls <= generated

\* C8 (amended): in the conservative policy only transient network failures
\* are retried; a remote rejection is never followed by a backoff or a
\* further attempt and is recorded as an error at once.  In the concurrent
\* and chunked policies no record is ever called twice.
Thm_C8 ==
  /\ policy = "conservative" =>
       /\ \A k \in 1 .. Len(recHist) - 1 : recHist[k] \in NetworkMessages
       /\ (Phases("backoff") # {} => Last(recHist) \in NetworkMessages)
       /\ (recHist # <<>> /\ Last(recHist) \in OtherMessages) =>
            (Phases("recCaught") # {} /\ errors = recBase[2] + 1)
  /\ policy \in {"concurrent", "chunked"} => calls <= generated

\* a record rejected on its second attempt, after one transient failure
Wit_C8 ==
  /\ policy = "conservative"
  /\ Len(recHist) = 2 /\ recHist[2] = "validation failed"
  /\ Phases("recCaught") # {}
  /\ Len(recWaits) = 1

\* C9: in every policy no per-record failure and no whole-batch exception
\* aborts the run: once an error has been counted the run still reaches
\* Finished, and at Finished every batch has been dispatched and processed
\* and the summary reported.
Thm_C9 ==
  /\ [](Finished => /\ Len(dispatchLog) = SpecBatches
                    /\ \A b \in BatchIds : batchSt[b].phase = "done"
                    /\ summaries = 1)
  /\ (errors > 0 ~> Finished)

\* a finished run whose first batch threw and in which a call failed later
Wit_C9 ==
  /\ Finished /\ NumBatches >= 2
  /\ 0 \in caught
  /\ nRejected > 0
  /\ summaries = 1

\* C10: in every policy a whole-batch exception in batch i is caught at the
\* batch boundary: the handler adds exactly that batch's size (the
\* remainder for the last batch) to error_count, leaves processed_count
\* unchanged and lets processBatch return, and the batch after i is
\* processed as well.
Thm_C10 ==
  /\ [][\A b \in BatchIds : (b \notin caught /\ b \in caught') =>
          /\ errors' = errors + SpecSize(b)
          /\ processedUsers' = processedUsers
          /\ batchSt'[b].phase = "returned"]_vars
  /\ [](Finished => \A b \in caught : b + 1 < SpecBatches =>
                      (Len(dispatchLog) > b + 1 /\ batchSt[b + 1].phase = "done"))

\* the last batch, smaller than the others, has just been caught after
\* earlier batches were processed
Wit_C10 ==
  /\ NumBatches >= 2
  /\ (NumBatches - 1) \in caught
  /\ batchSt[NumBatches - 1].phase = "returned"
  /\ SpecSize(NumBatches - 1) < SpecB
  /\ errors = SpecSize(NumBatches - 1)
  /\ processedUsers > 0

\* ------------------------------------------------------------ claims C11-C20
\* remote create calls started and not yet settled
CallsInFlight == calls - nFulfilled - nRejected

\* position of the run in Idle (0), Running (1), Draining (2), Finished (3)
RunRank ==
  IF Finished THEN 3
  ELSE IF Len(dispatchLog) = SpecBatches THEN 2
  ELSE IF dispatchLog # <<>> THEN 1
  ELSE 0

\* C11: a run moves through Idle, Running, Draining and Finished in that
\* order and never back; the final summary is produced exactly once, at the
\* step that enters Finished, and only when every batch has been dispatched
\* and has completed with no remote call in flight; in Finished neither
\* counter nor the state changes any more.
Thm_C11 ==
  /\ [](summaries = (IF Finished THEN 1 ELSE 0))
  /\ [](Finished => /\ Len(dispatchLog) = SpecBatches
                    /\ InFlight = {}
                    /\ CallsInFlight = 0
                    /\ \A b \in BatchIds : batchSt[b].phase = "done")
  /\ [][RunRank' >= RunRank]_vars
  /\ [][Finished => /\ Finished'
                    /\ processedUsers' = processedUsers
                    /\ errors' = errors
                    /\ summaries' = summaries]_vars

\* a concurrent run that finished after waiting for batches still in their
\* slots, with successes and failures counted
Wit_C11 ==
  /\ Finished /\ policy = "concurrent"
  /\ drainSet # {}
  /\ processedUsers > 0 /\ errors > 0
  /\ summaries = 1

\* C12: with total_count >= 0, batch_size >= 1 and concurrency_limit >= 1,
\* and every remote call and pause completing, a run under any policy
\* reaches Finished.
Thm_C12 == <>Finished

\* a concurrent run with one slot and several batches, which had to wait
\* for the slot between batches, has finished
Wit_C12 ==
  /\ Finished /\ policy = "concurrent"
  /\ concurrentBatches = 1 /\ NumBatches >= 2
  /\ caught = {}

\* C13: batches are dispatched in strictly increasing index order, each
\* index of 0..batches-1 exactly once by the end of the run, and the
\* processing of a dispatched unit (a batch, or a sub-chunk in the chunked
\* policy) moves past its remote calls only after every record of the unit
\* has settled.
Thm_C13 ==
  /\ [](\A k \in 1 .. Len(dispatchLog) : dispatchLog[k][1] = k - 1)
  /\ [](Finished => Len(dispatchLog) = SpecBatches)
  /\ [][\A b \in BatchIds :
          (batchSt[b].phase = "creating" /\ batchSt'[b].phase # "creating") =>
             (batchSt[b].ok + batchSt[b].bad = UnitSize(b) /\ CallsInFlight' <= CallsInFlight)]_vars
  /\ [][\A b \in BatchIds :
          (batchSt[b].phase = "calling" /\ batchSt'[b].phase # "calling") =>
             CallsInFlight' = 0]_vars

\* two batches dispatched in order; the first has moved past its calls
\* while the second still has a call pending beside a settled one
Wit_C13 ==
  /\ Len(dispatchLog) >= 2
  /\ batchSt[0].phase = "pause"
  /\ batchSt[1].phase = "creating"
  /\ batchSt[1].ok + batchSt[1].bad > 0
  /\ Pending(1) > 0

\* C19: in the chunked policy at most one batch is in progress, a sub-chunk
\* is dispatched only when no call of the previous sub-chunk is in flight,
\* and at most 100 remote create calls are in flight in any state.
Thm_C19 ==
  /\ [](policy = "chunked" => /\ Cardinality(InFlight) <= 1
                             /\ CallsInFlight <= 100)
  /\ [][policy = "chunked" =>
          \A b \in BatchIds : batchSt'[b].i > batchSt[b].i =>
             /\ CallsInFlight = 0
             /\ batchSt'[b].i = batchSt[b].i + 100]_vars

\* the second sub-chunk of a 101-record batch is in flight alone
Wit_C19 ==
  /\ policy = "chunked"
  /\ \E b \in BatchIds : /\ batchSt[b].phase = "creating"
                         /\ batchSt[b].size = 101
                         /\ batchSt[b].i = 100
  /\ CallsInFlight = 1

\* C20: in the conservative policy at most one remote create call is in
\* flight and at most one batch in progress; the next record is attempted
\* only after the current one has finally succeeded or been abandoned, and
\* the next batch is dispatched only after the current one has finished.
Thm_C20 ==
  /\ [](policy = "conservative" => /\ CallsInFlight <= 1
                                  /\ Cardinality(InFlight) <= 1)
  /\ [][policy = "conservative" =>
          \A b \in BatchIds : batchSt'[b].i > batchSt[b].i =>
             /\ batchSt[b].phase \in {"recPause", "recCaught"}
             /\ CallsInFlight = 0
             /\ batchSt'[b].i = batchSt[b].i + 1
             /\ processedUsers + errors = recBase[1] + recBase[2] + 1]_vars
  /\ [][policy = "conservative" =>
          (Len(dispatchLog') > Len(dispatchLog) =>
             \A b \in BatchIds : b < Len(dispatchLog) => batchSt[b].phase = "done")]_vars

\* the second record of the second batch is being retried after a network
\* failure while the first batch is done
Wit_C20 ==
  /\ policy = "conservative"
  /\ Len(dispatchLog) = 2
  /\ batchSt[0].phase = "done"
  /\ batchSt[1].phase = "calling" /\ batchSt[1].i = 1
  /\ attempt = 2
  /\ CallsInFlight = 1

\* the text after '=' is a decimal integer
ValidInteger(str) == str # <<>> /\ LeadingDigits(str) = Len(str)

\* the numbers given on the command line with the option opt
Overrides(opt) ==
  {ParseInt(args[k].val) :
     k \in {j \in 1 .. Len(args) : args[j].opt = opt /\ ValidInteger(args[j].val)}}

\* the run of seedUsers has begun
Started == mainPc \notin {"import", "args", "main", "construct", "exited"}

\* C14 as stated: when the command line carries --users=N, --batch=N or
\* --concurrent=N with N a valid integer, the configuration the run uses
\* has total_count, batch_size or concurrency_limit equal to N.
Orig_C14 ==
  (policy = "concurrent" /\ Started) =>
    /\ Overrides("--users=") # {} => totalUsers \in Overrides("--users=")
    /\ Overrides("--batch=") # {} => batchSize \in Overrides("--batch=")
    /\ Overrides("--concurrent=") # {} => concurrentBatches \in Overrides("--concurrent=")

CredentialMissing ==
  env.SUPABASE_URL = "" \/ env.SUPABASE_SERVICE_ROLE_KEY = ""

\* C15 as stated: under each entry point, when the service URL or the admin
\* credential is missing, the process ends with a configuration error and
\* exit status 1 before any batch is dispatched, any record generated and
\* any remote call made.
Orig_C15 ==
  (CredentialMissing /\ ~HelpRequested) =>
    /\ ~Started
    /\ dispatchLog = <<>> /\ generated = 0 /\ calls = 0
    /\ exitCode \in {NULL, 1}
    /\ exitCode = 1 => message # ""

\* C18: the exit status is 0 when the run reached completion, whatever the
\* error count; it is 1 exactly when main caught an exception, which is
\* either the one of the start-up validation or one thrown before seedUsers
\* began; a process that ends otherwise (the help text) ends with 0.
Thm_C18 ==
  /\ exitCode \in {NULL, 0, 1}
  /\ (Finished /\ exitCode # NULL) => exitCode = 0
  /\ exitCode = 1 <=> (mainPc = "exited" /\ message # "")
  /\ message # "" =>
       /\ summaries = 0 /\ dispatchLog = <<>>
       /\ \/ (policy = "concurrent" /\ message = ValidateConfig)
          \/ message = "createClient failed"
  /\ exitCode = 0 => (Finished \/ (HelpRequested /\ mainPc = "exited"))

\* a run in which every record failed has completed and exited with 0
Wit_C18 ==
  /\ Finished /\ exitCode = 0
  /\ totalUsers = 2 /\ errors = 2 /\ processedUsers = 0
  /\ summaries = 1

\* two records with the same email among those listed in recs
SharedEmail(recs) ==
  \E j, k \in 1 .. Len(recs) : j # k /\ recs[j].email = recs[k].email

\* C16 as stated: within one run no two generated records share an email,
\* across all batches and under every policy, whatever names are picked and
\* however much the clock advances between the batches.
Orig_C16 == ~SharedEmail(allUsers)

\* the email ends in '@' followed by the domain
EndsWithDomain(email, emailDomain) ==
  /\ Len(email) >= 2
  /\ email[Len(email) - 1] = "@"
  /\ email[Len(email)] = emailDomain

\* C17: generateUserBatch(N, domain, password) returns exactly N records
\* (none for N = 0), each with email_verified true, the given password and
\* an email ending in @domain, and the N emails are pairwise distinct.
Thm_C17 ==
  /\ currentBatch > 0 =>
       Len(users) = CurrentBatchSize(policy, totalUsers, batchSize, currentBatch - 1)
  /\ \A k \in 1 .. Len(users) :
       /\ users[k].user_metadata.email_verified = TRUE
       /\ users[k].password = DefaultPassword
       /\ EndsWithDomain(users[k].email, EmailDomain)
  /\ ~SharedEmail(users)
  /\ GenerateUserBatch(0, EmailDomain, DefaultPassword, now, <<>>) = <<>>

\* a batch of two records for which the same names were picked
Wit_C17 ==
  /\ Len(users) = 2
  /\ users[1].user_metadata = users[2].user_metadata
  /\ users[1].email # users[2].email
  /\ EmailDomain = "test.io"

\* the duration a calculateETA result shows, in seconds
ShownSeconds(result) == result.hours * 3600 + result.minutes * 60 + result.seconds

\* the per-record rates elapsed / processed held constant in the comparison
RateChoices == {0, 500, 1000, 90000, 1800000}

\* C21: calculateETA returns 'Calculating...' exactly when processed = 0;
\* for processed > 0 it shows (total - processed) * elapsed / processed, in
\* whole seconds, which is 0 when processed = total and, at a constant
\* per-record rate elapsed / processed, never grows as processed grows.
Thm_C21 ==
  /\ eta.processed # NULL =>
       (eta.result.text = "Calculating..." <=> eta.processed = 0)
  /\ (eta.processed # NULL /\ eta.processed > 0) =>
       /\ ShownSeconds(eta.result) =
            ((eta.total - eta.processed) * eta.elapsed) \div (eta.processed * 1000)
       /\ eta.processed = eta.total =>
            eta.result = [text |-> "s", hours |-> 0, minutes |-> 0, seconds |-> 0]
  /\ \A rate \in RateChoices : \A p1, p2 \in 1 .. totalUsers :
       p1 <= p2 =>
         ShownSeconds(CalculateETAAt(p2, totalUsers, rate * p2))
           <= ShownSeconds(CalculateETAAt(p1, totalUsers, rate * p1))

\* one of three records done after an hour and a half: three hours to go
Wit_C21 ==
  /\ eta.processed = 1 /\ eta.total = 3 /\ eta.elapsed = 5400000
  /\ eta.result = [text |-> "h m s", hours |-> 3, minutes |-> 0, seconds |-> 0]

RECURSIVE CaughtSizesUpTo(_)
\* the sizes of the caught batches among 0..n
CaughtSizesUpTo(n) ==
  IF n < 0 THEN 0
  ELSE (IF n \in caught THEN SpecSize(n) ELSE 0) + CaughtSizesUpTo(n - 1)

\* C22: in the concurrent policy, whatever the order in which the calls and
\* batches in flight complete, each tally adds the successes and failures of
\* its own batch in one step and no update is lost or repeated: in every
\* state processed_count is the number of fulfilled calls of the batches
\* tallied so far and error_count the number of their rejected calls (plus
\* the sizes added for caught batches, none in a run without a whole-batch
\* exception); at the end of the run these are all the calls made.
Thm_C22 ==
  /\ [](policy = "concurrent" =>
          /\ processedUsers = nFulfilled - SettledOkUpTo(NumBatches - 1)
          /\ errors = nRejected - SettledBadUpTo(NumBatches - 1)
                        + CaughtSizesUpTo(NumBatches - 1)
          /\ Finished => /\ processedUsers = nFulfilled
                         /\ caught = {} => errors = nRejected)
  /\ [][policy = "concurrent" =>
          \A b \in BatchIds :
            (batchSt[b].phase = "creating" /\ batchSt'[b].phase = "reporting") =>
               /\ processedUsers' = processedUsers + batchSt[b].ok
               /\ errors' = errors + batchSt[b].bad
               /\ batchSt[b].ok + batchSt[b].bad = batchSt[b].size]_vars

\* the second batch was tallied before the first: its success is counted
\* while a fulfilled call of the first is still untallied
Wit_C22 ==
  /\ policy = "concurrent" /\ NumBatches >= 2
  /\ batchSt[0].phase = "creating" /\ batchSt[0].ok = 1 /\ Pending(0) > 0
  /\ batchSt[1].phase = "pause"
  /\ processedUsers = 1 /\ errors = 0
  /\ nFulfilled = 2

\* C23: in the concurrent and chunked policies a whole-batch exception
\* raised after the batch's records were tallied still adds the batch's
\* full size to error_count, so these records are counted twice: at the end
\* of the run processed_count + error_count exceeds total_count by the
\* sizes of the batches caught after their tally.
Thm_C23 ==
  /\ [][(policy # "conservative") =>
          \A b \in BatchIds :
            (b \notin caught /\ b \in caught' /\ batchSt[b].phase = "reporting") =>
               /\ errors' = errors + SpecSize(b)
               /\ processedUsers + errors >= SpecSize(b)
               /\ processedUsers' = processedUsers]_vars
  /\ [](policy \in {"concurrent", "chunked"} /\ Finished =>
          /\ processedUsers + errors =
               totalUsers + (CaughtSizesUpTo(NumBatches - 1) - (totalUsers - generated))
          /\ CaughtSizesUpTo(NumBatches - 1) > totalUsers - generated =>
               processedUsers + errors > totalUsers)

\* a chunked run of two batches has finished; every record was created and
\* tallied, and the first batch was caught afterwards
Wit_C23 ==
  /\ Finished /\ policy = "chunked"
  /\ NumBatches = 2 /\ caught = {0}
  /\ generated = totalUsers
  /\ processedUsers > 0
  /\ processedUsers + errors = totalUsers + SpecSize(0)

\* the slots that hold a promise
OccupiedSlots == {s \in Slots : semaphore[s] # NULL}

\* C24: in the concurrent policy a batch is put only into a slot that is
\* empty at that moment, and the completion of a batch clears only the slot
\* that batch was put in; in every state each batch in flight occupies
\* exactly one slot and as many slots are occupied as batches are in flight.
Thm_C24 ==
  /\ [](policy = "concurrent" =>
          /\ \A b \in InFlight : Cardinality({s \in Slots : semaphore[s] = b}) = 1
          /\ \A s \in OccupiedSlots : semaphore[s] \in InFlight
          /\ Cardinality(OccupiedSlots) = Cardinality(InFlight))
  /\ [][policy = "concurrent" =>
          \A s \in Slots : semaphore'[s] # semaphore[s] =>
            \/ /\ semaphore[s] = NULL
               /\ semaphore'[s] = currentBatch
               /\ batchSt[currentBatch].phase = "new"
            \/ /\ semaphore[s] # NULL
               /\ semaphore'[s] = NULL
               /\ batchSt[semaphore[s]].slot = s
               /\ batchSt'[semaphore[s]].phase = "done"]_vars

\* the first slot, freed by the first batch, now holds the third batch
\* while the second batch still occupies the second slot
Wit_C24 ==
  /\ policy = "concurrent" /\ concurrentBatches = 2
  /\ NumBatches = 3
  /\ batchSt[0].phase = "done"
  /\ semaphore[0] = 2 /\ semaphore[1] = 1
  /\ InFlight = {1, 2}

\* C25: in every policy and every state, also in runs with whole-batch
\* exceptions and retries, processed_count is at most total_count (and at
\* most the number of successful calls: no record is counted twice), and
\* neither counter ever decreases.
Thm_C25 ==
  /\ [](processedUsers <= totalUsers /\ processedUsers <= nFulfilled)
  /\ [][processedUsers' >= processedUsers /\ errors' >= errors]_vars

\* a conservative run has finished in which the first batch was caught and
\* a later record succeeded on a retry after a failed call
Wit_C25 ==
  /\ Finished /\ policy = "conservative"
  /\ caught = {0}
  /\ nRejected >= 1
  /\ errors = SpecSize(0)
  /\ processedUsers = totalUsers - SpecSize(0)
  /\ processedUsers >= 1

\* the concurrent seeder configured with no slot and something to seed
ZeroLimit ==
  policy = "concurrent" /\ concurrentBatches = 0 /\ totalUsers >= 1

\* C26: in the concurrent policy with concurrency_limit = 0 and
\* total_count >= 1 the slot pool is empty; no batch is ever dispatched, no
\* record generated, no remote call made, the run never reaches Finished,
\* and the loop goes on taking its polling pause for ever.
Thm_C26 ==
  /\ [](ZeroLimit => /\ Slots = {}
                     /\ dispatchLog = <<>> /\ currentBatch = 0
                     /\ generated = 0 /\ calls = 0
                     /\ mainPc \in {"loop", "polling"}
                     /\ ~Finished)
  /\ []<>(ZeroLimit => mainPc = "polling")
  /\ []<>(ZeroLimit => mainPc = "loop")

\* the loop sleeps in its polling pause with nothing dispatched
Wit_C26 ==
  /\ ZeroLimit
  /\ mainPc = "polling"
  /\ dispatchLog = <<>>
====
